---- MODULE Spec2Model ----
(***************************************************************************)
(* srt_verify.py: the SRT timestamp (SRTTime), the parser (SRTFile.parse), *)
(* the validator / repair pass (verify_srt) and the pipeline of main().    *)
(*                                                                         *)
(* A text is a sequence of characters (one-character strings), an input is *)
(* the sequence of its lines.  An exception is a record that keeps the     *)
(* message's format string and the values formatted into it.  A finding of *)
(* verify_srt is kept as the record of the values its message formats.     *)
(***************************************************************************)
EXTENDS Integers, Sequences, FiniteSets, TLC

VARIABLES
    srt_content,  \* main: the input text, as its lines (before .strip())
    renumber,     \* main: args.renumber
    fix_errors,   \* main: args.fix
    srt,          \* the SRTFile: [entries, warnings]
    result,       \* the list verify_srt returned last
    raised,       \* the exception that ended the run, or NoError
    pc,           \* "main" | "parsed" | "verified" | "done" | "failed" | "lib"
    before,       \* srt.entries as they were when the last verify_srt call began
    passes,       \* every verify_srt call so far: its fix_errors argument, and
                  \* whether it changed a timestamp
    visits        \* what the last verify_srt call read at each entry it visited

vars == <<srt_content, renumber, fix_errors, srt, result, raised, pc, before,
          passes, visits>>

(***************************************************************************)
(* Bounds of the model.                                                    *)
(***************************************************************************)
MaxMs == 1        \* nominal timestamps are 00:00:00,000 .. 00:00:00,MaxMs
MaxEntries == 3   \* entries of a Document built from nominal timestamps
MaxCalls == 3     \* verify_srt calls a library caller makes in a row

NoError == [exc |-> "none"]
None == [absent |-> TRUE]

(***************************************************************************)
(* SRTTime                                                                 *)
(***************************************************************************)
SRTTime(h, m, s, ms) ==
    [hours |-> h, minutes |-> m, seconds |-> s, milliseconds |-> ms]

\* Python's tuple comparison of two 4-tuples.
TupleLess(a, b) ==
    \E k \in 1..4 : a[k] < b[k] /\ \A j \in 1..(k - 1) : a[j] = b[j]

Fields(t) == <<t.hours, t.minutes, t.seconds, t.milliseconds>>

SRTTime_lt(self, other) == TupleLess(Fields(self), Fields(other))

\* functools.total_ordering derives >= from __lt__ as "not self < other".
SRTTime_ge(self, other) == ~SRTTime_lt(self, other)

\* SRTTime defines no __eq__: == is object.__eq__, true of an object and
\* itself only (`same` says the two operands are one object); != negates it.
SRTTime_eq(self, other, same) == same

SRTTime_ne(self, other, same) == ~SRTTime_eq(self, other, same)

\* functools.total_ordering: > is "not self < other and self != other",
\* <= is "self < other or self == other".
SRTTime_gt(self, other, same) ==
    ~SRTTime_lt(self, other) /\ SRTTime_ne(self, other, same)

SRTTime_le(self, other, same) ==
    SRTTime_lt(self, other) \/ SRTTime_eq(self, other, same)

total_ms(t) ==
    t.hours * 3600000 + t.minutes * 60000 + t.seconds * 1000 + t.milliseconds

FromMs(avg_ms) ==
    SRTTime(avg_ms \div 3600000,
            (avg_ms % 3600000) \div 60000,
            ((avg_ms % 3600000) % 60000) \div 1000,
            ((avg_ms % 3600000) % 60000) % 1000)

average_fieldwise(self, other) ==
    SRTTime((self.hours + other.hours) \div 2, (self.minutes + other.minutes) \div 2,
            (self.seconds + other.seconds) \div 2,
            (self.milliseconds + other.milliseconds) \div 2)

average_ceil(self, other) == FromMs((total_ms(self) + total_ms(other) + 1) \div 2)

average(self, other) == FromMs((total_ms(self) + total_ms(other)) \div 2)

(***************************************************************************)
(* SRTEntry, SRTFile                                                       *)
(***************************************************************************)
SRTEntry(id, start_time, end_time, text, line_number) ==
    [id |-> id, start_time |-> start_time, end_time |-> end_time,
     text |-> text, line_number |-> line_number]

SRTFile(entries, warnings) == [entries |-> entries, warnings |-> warnings]

(***************************************************************************)
(* verify_srt                                                              *)
(***************************************************************************)
MissingFinding(entry) ==
    [kind |-> "missing", id |-> entry.id, line_number |-> entry.line_number]

InvalidFinding(entry) ==
    [kind |-> "invalid", id |-> entry.id, line_number |-> entry.line_number,
     start_time |-> entry.start_time, end_time |-> entry.end_time]

OverlapFinding(entry, prev) ==
    [kind |-> "overlap", id |-> entry.id, line_number |-> entry.line_number,
     prev_id |-> prev.id, prev_line_number |-> prev.line_number]

\* "not x": None is false, an SRTTime (no __bool__, no __len__) is true.
Falsy(x) == x = None

\* What "entry.start_time >= entry.end_time" raises when an operand is None:
\* SRTTime.__lt__ reads other.hours (directly, or reflected through __le__),
\* and None >= None has no implementation at all.
CompareRaises(a, b) ==
    IF a = None /\ b = None
    THEN [exc |-> "TypeError", site |-> "verify_srt", fmt |-> "'>=' not supported"]
    ELSE IF a = None \/ b = None
    THEN [exc |-> "AttributeError", site |-> "verify_srt", fmt |-> "no attribute 'hours'"]
    ELSE NoError

MissingCheck(st, entry) ==
    IF Falsy(entry.start_time) \/ Falsy(entry.end_time)
    THEN [st EXCEPT !.errors = Append(@, MissingFinding(entry))]
    ELSE st

InvalidCheck_strict(st, entry) ==
    IF SRTTime_lt(entry.end_time, entry.start_time)
    THEN [st EXCEPT !.errors = Append(@, InvalidFinding(entry))]
    ELSE st

InvalidCheck(st, entry) ==
    IF SRTTime_ge(entry.start_time, entry.end_time)
    THEN [st EXCEPT !.errors = Append(@, InvalidFinding(entry))]
    ELSE st

Overlaps_inclusive(entry, prev) == ~SRTTime_lt(prev.end_time, entry.start_time)

Overlaps(entry, prev) == SRTTime_lt(entry.start_time, prev.end_time)

Repair_prev_only(st, k) ==
    LET midpoint == average(st.entries[k - 1].end_time, st.entries[k].start_time)
    IN  [st EXCEPT !.entries[k - 1].end_time = midpoint]

Repair_collapses_prev(st, k) ==
    LET midpoint == average(st.entries[k - 1].end_time, st.entries[k].start_time)
    IN  [st EXCEPT !.entries[k - 1].start_time = midpoint,
                   !.entries[k - 1].end_time = midpoint,
                   !.entries[k].start_time = midpoint]

Repair_cur_only(st, k) ==
    LET midpoint == average(st.entries[k - 1].end_time, st.entries[k].start_time)
    IN  [st EXCEPT !.entries[k].start_time = midpoint]

Repair(st, k) ==
    LET midpoint == average(st.entries[k - 1].end_time, st.entries[k].start_time)
    IN  [st EXCEPT !.entries[k - 1].end_time = midpoint,
                   !.entries[k].start_time = midpoint]

OverlapCheck_always_fix(st, k, fix) ==
    IF k > 1 /\ Overlaps(st.entries[k], st.entries[k - 1])
    THEN Repair(st, k)
    ELSE st

OverlapCheck(st, k, fix) ==
    IF k > 1 /\ Overlaps(st.entries[k], st.entries[k - 1])
    THEN IF fix
         THEN Repair(st, k)
         ELSE [st EXCEPT !.errors =
                   Append(@, OverlapFinding(st.entries[k], st.entries[k - 1]))]
    ELSE st

\* What the loop body reads when it visits entry k (prev is entries[k - 1]).
Visit(st, k) ==
    [start_time |-> st.entries[k].start_time,
     end_time |-> st.entries[k].end_time,
     prev_end |-> IF k > 1 THEN st.entries[k - 1].end_time ELSE None]

\* One iteration of "for entry in srt.entries".
VerifyEntry(st, k, fix) ==
    LET entry == st.entries[k]
        s0 == [st EXCEPT !.visits = Append(@, Visit(st, k))]
        s1 == MissingCheck(s0, entry)
        exc == CompareRaises(entry.start_time, entry.end_time)
    IN  IF exc # NoError
        THEN [s1 EXCEPT !.exc = exc]
        ELSE OverlapCheck(InvalidCheck(s1, entry), k, fix)

RECURSIVE VerifyLoop(_, _, _)
VerifyLoop(st, k, fix) ==
    IF k > Len(st.entries) \/ st.exc # NoError
    THEN st
    ELSE VerifyLoop(VerifyEntry(st, k, fix), k + 1, fix)

\* verify_srt(srt, fix_errors): [entries (as mutated), errors (the list it
\* returns), exc (what it raised instead, or NoError), visits].
verify_srt(entries, fix) ==
    VerifyLoop([entries |-> entries, errors |-> <<>>, exc |-> NoError,
                visits |-> <<>>], 1, fix)

(***************************************************************************)
(* Timestamps of the Documents the validator is run on                     *)
(***************************************************************************)
NominalTimes == {SRTTime(0, 0, 0, ms) : ms \in 0..MaxMs}

\* Fields are not range-checked: 00:00:61,000 is later than 00:01:00,000 in
\* milliseconds and earlier as a tuple.
OverflowTimes == {SRTTime(0, 0, 61, 0), SRTTime(0, 1, 0, 0)}

Times == NominalTimes \cup OverflowTimes

(***************************************************************************)
(* Text: str.strip, "in", str.split, str.replace, str.ljust, int, float    *)
(***************************************************************************)
ARROW == <<"-", "-", ">">>          \* "-->"
UARROW == <<"u2192">>               \* the one character U+2192
SEPARATOR == <<" ">> \o ARROW \o <<" ">>   \* " --> "

Digits == {"0", "1", "2", "3", "4", "5", "6", "7", "8", "9"}

DigitValue(c) ==
    CASE c = "0" -> 0 [] c = "1" -> 1 [] c = "2" -> 2 [] c = "3" -> 3
      [] c = "4" -> 4 [] c = "5" -> 5 [] c = "6" -> 6 [] c = "7" -> 7
      [] c = "8" -> 8 [] c = "9" -> 9

IsSpace(c) == c = " "

RECURSIVE LStrip(_)
LStrip(s) == IF s # <<>> /\ IsSpace(Head(s)) THEN LStrip(Tail(s)) ELSE s

RECURSIVE RStrip(_)
RStrip(s) ==
    IF s # <<>> /\ IsSpace(s[Len(s)]) THEN RStrip(SubSeq(s, 1, Len(s) - 1)) ELSE s

Strip(s) == RStrip(LStrip(s))

\* The places where sub occurs in s.
Occurrences(s, sub) ==
    {k \in 1..(Len(s) - Len(sub) + 1) : SubSeq(s, k, k + Len(sub) - 1) = sub}

Contains(s, sub) == Occurrences(s, sub) # {}

Min(S) == CHOOSE x \in S : \A y \in S : x <= y

RECURSIVE Split(_, _)
Split(s, sep) ==
    IF ~Contains(s, sep)
    THEN <<s>>
    ELSE LET k == Min(Occurrences(s, sep))
         IN  <<SubSeq(s, 1, k - 1)>> \o Split(SubSeq(s, k + Len(sep), Len(s)), sep)

\* s.replace(c, to) for a one-character c.
RECURSIVE Replace(_, _, _)
Replace(s, c, to) ==
    IF s = <<>> THEN <<>>
    ELSE (IF Head(s) = c THEN to ELSE <<Head(s)>>) \o Replace(Tail(s), c, to)

RECURSIVE LJust(_, _, _)
LJust(s, width, fill) == IF Len(s) >= width THEN s ELSE LJust(Append(s, fill), width, fill)

Take(s, n) == SubSeq(s, 1, IF Len(s) < n THEN Len(s) ELSE n)

RECURSIVE DecimalValue(_)
DecimalValue(s) ==
    IF s = <<>> THEN 0
    ELSE 10 * DecimalValue(SubSeq(s, 1, Len(s) - 1)) + DigitValue(s[Len(s)])

IsDigits(s) == s # <<>> /\ \A k \in 1..Len(s) : s[k] \in Digits

Unsigned(t) == IF t # <<>> /\ Head(t) \in {"+", "-"} THEN Tail(t) ELSE t

Signed(t, v) == IF t # <<>> /\ Head(t) = "-" THEN 0 - v ELSE v

IntError(s) ==
    [ok |-> FALSE,
     exc |-> [exc |-> "ValueError", site |-> "int",
              fmt |-> "invalid literal for int() with base 10: {}", got |-> s]]

FloatError(s) ==
    [ok |-> FALSE,
     exc |-> [exc |-> "ValueError", site |-> "float",
              fmt |-> "could not convert string to float: {}", got |-> s]]

\* The value of the numeral t (s without its surrounding whitespace).
IntOfStripped(s, t) ==
    IF IsDigits(Unsigned(t))
    THEN [ok |-> TRUE, value |-> Signed(t, DecimalValue(Unsigned(t)))]
    ELSE IntError(s)

\* int(s): surrounding whitespace and one sign are accepted.
int(s) == IntOfStripped(s, Strip(s))

\* A decimal numeral split at its ".": digits, with an optional fraction, one
\* of the two sides may be empty.
IsDecimalNumeral(p) ==
    \/ Len(p) = 1 /\ IsDigits(p[1])
    \/ /\ Len(p) = 2
       /\ \A k \in 1..2 : p[k] = <<>> \/ IsDigits(p[k])
       /\ p # << <<>>, <<>> >>

\* The integer part of the numeral t, split at its "." into p.
FloatOfParts(s, t, p) ==
    IF IsDecimalNumeral(p)
    THEN [ok |-> TRUE, value |-> Signed(t, DecimalValue(p[1]))]
    ELSE FloatError(s)

FloatOfStripped(s, t) == FloatOfParts(s, t, Split(Unsigned(t), <<".">>))

\* int(float(s)) for a decimal numeral with an optional fraction.
int_float(s) == FloatOfStripped(s, Strip(s))

(***************************************************************************)
(* SRTTime.parse                                                           *)
(***************************************************************************)

\* int(sec_parts[1].ljust(3, "0")[:3])
Milliseconds(text) == int(Take(LJust(text, 3, "0"), 3))

\* The first conversion that failed raises; otherwise the SRTTime.
TimeOfFields(hours, minutes, seconds, milliseconds) ==
    IF ~hours.ok THEN hours
    ELSE IF ~minutes.ok THEN minutes
    ELSE IF ~seconds.ok THEN seconds
    ELSE IF ~milliseconds.ok THEN milliseconds
    ELSE [ok |-> TRUE,
          value |-> SRTTime(hours.value, minutes.value, seconds.value,
                            milliseconds.value)]

TimeOfParts(parts, sec_parts) ==
    IF Len(sec_parts) = 2
    THEN TimeOfFields(int(parts[1]), int(parts[2]), int(sec_parts[1]),
                      Milliseconds(sec_parts[2]))
    ELSE TimeOfFields(int(parts[1]), int(parts[2]), int_float(sec_parts[1]),
                      [ok |-> TRUE, value |-> 0])

TimeOfSplit(time_str, parts) ==
    IF Len(parts) # 3
    THEN [ok |-> FALSE,
          exc |-> [exc |-> "ValueError", site |-> "SRTTime.parse",
                   fmt |-> "Invalid time format: {}", got |-> time_str]]
    ELSE TimeOfParts(parts, Split(parts[3], <<",">>))

SRTTime_parse(time_str) == TimeOfSplit(time_str, Split(time_str, <<":">>))

(***************************************************************************)
(* SRTFile.parse                                                           *)
(*                                                                         *)
(* The loop's state: i (0-based, as in the code), new_id, entries,         *)
(* warnings, the locals of the block being read (id, line_number, l,       *)
(* start_time, end_time) and exc, the exception raised (or NoError).       *)
(***************************************************************************)
ValueError(site, fmt, line, got) ==
    [exc |-> "ValueError", site |-> site, fmt |-> fmt, line |-> line, got |-> got]

IndexError(site) ==
    [exc |-> "IndexError", site |-> site, fmt |-> "list index out of range"]

MissingIdWarning(line_number, id) ==
    [fmt |-> "Missing entry ID at line {}; assigned new ID {}.",
     line |-> line_number, id |-> id]

ReplacedWarning(line) ==
    [fmt |-> "Replaced U+2192 with '-->' at line {}.", line |-> line]

\* lines[i], with the list's 0-based index.
At(lines, i) == lines[i + 1]

RECURSIVE DropBlankHead(_)
DropBlankHead(ls) ==
    IF ls # <<>> /\ Strip(Head(ls)) = <<>> THEN DropBlankHead(Tail(ls)) ELSE ls

RECURSIVE DropBlankTail(_)
DropBlankTail(ls) ==
    IF ls # <<>> /\ Strip(ls[Len(ls)]) = <<>>
    THEN DropBlankTail(SubSeq(ls, 1, Len(ls) - 1))
    ELSE ls

\* srt_content.strip().split("\n"): the whitespace stripped from the two ends
\* of the text includes its leading and trailing blank lines.
StripSplit(content) ==
    LET ls == DropBlankTail(DropBlankHead(content))
        n == Len(ls)
    IN  IF n = 0 THEN << <<>> >>
        ELSE IF n = 1 THEN <<Strip(ls[1])>>
        ELSE <<LStrip(ls[1])>> \o SubSeq(ls, 2, n - 1) \o <<RStrip(ls[n])>>

LooksLikeTimeRange(l) == Contains(l, ARROW) \/ Contains(l, UARROW)

\* The ID line was missing: the line at the ID position holds an arrow.
MissingId_advances(st, lines, ren, fix) ==
    LET line_number == st.i + 1
    IN  IF ~fix
        THEN [st EXCEPT !.exc =
                 ValueError("missing id", "Expected integer entry ID at line {}, got: {}",
                            line_number, At(lines, st.i))]
        ELSE IF ren
        THEN [st EXCEPT !.id = st.new_id, !.new_id = @ + 1, !.line_number = line_number,
                        !.i = @ + 1,
                        !.warnings = Append(@, MissingIdWarning(line_number, st.new_id))]
        ELSE [st EXCEPT !.exc =
                 ValueError("renumbering off",
                            "Expected integer entry ID at line {}; must turn on renumbering to fix this error.",
                            line_number, <<>>)]

MissingId(st, lines, ren, fix) ==
    LET line_number == st.i + 1
    IN  IF ~fix
        THEN [st EXCEPT !.exc =
                 ValueError("missing id", "Expected integer entry ID at line {}, got: {}",
                            line_number, At(lines, st.i))]
        ELSE IF ren
        THEN [st EXCEPT !.id = st.new_id, !.new_id = @ + 1, !.line_number = line_number,
                        !.warnings = Append(@, MissingIdWarning(line_number, st.new_id))]
        ELSE [st EXCEPT !.exc =
                 ValueError("renumbering off",
                            "Expected integer entry ID at line {}; must turn on renumbering to fix this error.",
                            line_number, <<>>)]

\* The ID line is there: it must be an integer.
ReadId_skips_malformed(st, lines, ren, fix) ==
    LET parsed == int(At(lines, st.i))
    IN  IF ~parsed.ok /\ ~fix
        THEN [st EXCEPT !.exc =
                 ValueError("malformed id", "Expected integer entry ID at line {}, got: {}",
                            st.i + 1, At(lines, st.i))]
        ELSE [st EXCEPT !.id = IF ren \/ ~parsed.ok THEN st.new_id ELSE parsed.value,
                        !.new_id = IF ren \/ ~parsed.ok THEN @ + 1 ELSE @,
                        !.line_number = st.i + 1,
                        !.i = @ + 1]

ReadId_keeps_id(st, lines, ren, fix) ==
    LET parsed == int(At(lines, st.i))
    IN  IF ~parsed.ok
        THEN [st EXCEPT !.exc =
                 ValueError("malformed id", "Expected integer entry ID at line {}, got: {}",
                            st.i + 1, At(lines, st.i))]
        ELSE [st EXCEPT !.id = parsed.value,
                        !.line_number = st.i + 1,
                        !.i = @ + 1]

ReadId(st, lines, ren, fix) ==
    LET parsed == int(At(lines, st.i))
    IN  IF ~parsed.ok
        THEN [st EXCEPT !.exc =
                 ValueError("malformed id", "Expected integer entry ID at line {}, got: {}",
                            st.i + 1, At(lines, st.i))]
        ELSE [st EXCEPT !.id = IF ren THEN st.new_id ELSE parsed.value,
                        !.new_id = IF ren THEN @ + 1 ELSE @,
                        !.line_number = st.i + 1,
                        !.i = @ + 1]

\* "Parse the entry ID line".
IdStep(st, lines, ren, fix) ==
    IF LooksLikeTimeRange(Strip(At(lines, st.i)))
    THEN MissingId(st, lines, ren, fix)
    ELSE ReadId(st, lines, ren, fix)

\* The time-range line has no "-->".
NoArrow(st, lines, l, fix) ==
    IF Contains(l, UARROW) /\ fix
    THEN [st EXCEPT !.l = Replace(l, UARROW[1], ARROW),
                    !.warnings = Append(@, ReplacedWarning(st.i + 1))]
    ELSE [st EXCEPT !.exc =
             ValueError("missing time range", "Expected time range at line {}, got: {}",
                        st.i + 1, At(lines, st.i))]

EndTime(st, end_time) ==
    IF ~end_time.ok
    THEN [st EXCEPT !.exc = end_time.exc]
    ELSE [st EXCEPT !.end_time = end_time.value, !.i = @ + 1]

StartTime(st, time_range, start_time) ==
    IF ~start_time.ok
    THEN [st EXCEPT !.exc = start_time.exc]
    ELSE IF Len(time_range) < 2
    THEN [st EXCEPT !.exc = IndexError("time_range[1]")]
    ELSE EndTime([st EXCEPT !.start_time = start_time.value],
                 SRTTime_parse(Strip(time_range[2])))

TimesOfRange(st, time_range) ==
    StartTime(st, time_range, SRTTime_parse(Strip(time_range[1])))

\* time_range = l.split(" --> ") and the two SRTTime.parse calls.
ReadTimes(st) == TimesOfRange(st, Split(st.l, SEPARATOR))

\* "Parse the time range".
TimeRangeStep(st, lines, fix) ==
    IF st.i >= Len(lines)
    THEN [st EXCEPT !.exc = IndexError("lines[i]")]
    ELSE LET l == Strip(At(lines, st.i))
             s1 == IF ~Contains(l, ARROW)
                   THEN NoArrow(st, lines, l, fix)
                   ELSE [st EXCEPT !.l = l]
         IN  IF s1.exc # NoError THEN s1 ELSE ReadTimes(s1)

TextLine(st, lines) ==
    LET l == Strip(At(lines, st.i))
    IN  IF Contains(l, ARROW)
        THEN [st EXCEPT !.exc =
                 ValueError("arrow in text", "Unexpected time range in text at line {}, got: {}",
                            st.i + 1, At(lines, st.i))]
        ELSE [st EXCEPT !.text_lines = Append(@, l), !.i = @ + 1]

\* "Parse the text lines".
RECURSIVE TextStep(_, _)
TextStep(st, lines) ==
    IF st.exc = NoError /\ st.i < Len(lines) /\ Strip(At(lines, st.i)) # <<>>
    THEN TextStep(TextLine(st, lines), lines)
    ELSE st

AppendEntry(st) ==
    IF st.exc # NoError THEN st
    ELSE [st EXCEPT !.entries =
              Append(@, SRTEntry(st.id, st.start_time, st.end_time, st.text_lines,
                                 st.line_number))]

\* One iteration of "while i < len(lines)".
ParseBlock(st, lines, ren, fix) ==
    IF Strip(At(lines, st.i)) = <<>>
    THEN [st EXCEPT !.i = @ + 1]
    ELSE LET s1 == IdStep(st, lines, ren, fix)
             s2 == IF s1.exc # NoError THEN s1 ELSE TimeRangeStep(s1, lines, fix)
             s3 == IF s2.exc # NoError THEN s2
                   ELSE TextStep([s2 EXCEPT !.text_lines = <<>>], lines)
         IN  AppendEntry(s3)

RECURSIVE ParseLoop(_, _, _, _)
ParseLoop(st, lines, ren, fix) ==
    IF st.i < Len(lines) /\ st.exc = NoError
    THEN ParseLoop(ParseBlock(st, lines, ren, fix), lines, ren, fix)
    ELSE st

\* The states in which the loop "while i < len(lines)" evaluates its
\* condition, in order: the last one is the state it leaves the loop in.
RECURSIVE ParseHeads(_, _, _, _)
ParseHeads(st, lines, ren, fix) ==
    IF st.i < Len(lines) /\ st.exc = NoError
    THEN <<st>> \o ParseHeads(ParseBlock(st, lines, ren, fix), lines, ren, fix)
    ELSE <<st>>

ParseStart ==
    [i |-> 0, new_id |-> 1, entries |-> <<>>, warnings |-> <<>>, exc |-> NoError,
     id |-> 0, line_number |-> 0, l |-> <<>>, start_time |-> None, end_time |-> None,
     text_lines |-> <<>>]

\* SRTFile.parse(srt_content, renumber, fix_errors): the loop's last state;
\* exc is what it raised, entries and warnings are the SRTFile it returned.
SRTFile_parse(content, ren, fix) == ParseLoop(ParseStart, StripSplit(content), ren, fix)

(***************************************************************************)
(* __str__ of SRTTime, SRTEntry and SRTFile, as the lines of the text      *)
(***************************************************************************)
DigitChar(d) ==
    CASE d = 0 -> "0" [] d = 1 -> "1" [] d = 2 -> "2" [] d = 3 -> "3"
      [] d = 4 -> "4" [] d = 5 -> "5" [] d = 6 -> "6" [] d = 7 -> "7"
      [] d = 8 -> "8" [] d = 9 -> "9"

\* str(n) for n >= 0.
RECURSIVE Decimal(_)
Decimal(n) == IF n < 10 THEN <<DigitChar(n)>> ELSE Append(Decimal(n \div 10), DigitChar(n % 10))

\* f"{n:0w}" for n >= 0.
RECURSIVE ZeroPad(_, _)
ZeroPad(s, width) == IF Len(s) >= width THEN s ELSE ZeroPad(<<"0">> \o s, width)

SRTTime_str(t) ==
    ZeroPad(Decimal(t.hours), 2) \o <<":">> \o ZeroPad(Decimal(t.minutes), 2) \o <<":">>
    \o ZeroPad(Decimal(t.seconds), 2) \o <<",">> \o ZeroPad(Decimal(t.milliseconds), 3)

\* "\n".join(self.text) is one empty line when there is no text.
SRTEntry_str(e) ==
    <<Decimal(e.id), SRTTime_str(e.start_time) \o SEPARATOR \o SRTTime_str(e.end_time)>>
    \o (IF e.text = <<>> THEN << <<>> >> ELSE e.text)

RECURSIVE SRTFile_str(_)
SRTFile_str(entries) ==
    IF entries = <<>> THEN << <<>> >>
    ELSE IF Len(entries) = 1 THEN SRTEntry_str(entries[1])
    ELSE SRTEntry_str(entries[1]) \o << <<>> >> \o SRTFile_str(Tail(entries))

(***************************************************************************)
(* Input texts                                                             *)
(***************************************************************************)
MaxLines == 4     \* lines of an input text written from the line alphabet

T1 == <<"0", ":", "0", ":", "1">>
T2 == <<"0", ":", "0", ":", "2">>

LineAlphabet ==
    { <<" ">>,                                      \* a blank line
      <<"1">>,                                      \* an id
      <<" ", "7">>,                                 \* another id, indented
      <<"x">>,                                      \* text, or a malformed id
      T1 \o <<",", "5">> \o SEPARATOR \o T2,        \* 0:0:1,5 --> 0:0:2
      T1 \o <<" ">> \o UARROW \o <<" ">> \o T2,     \* the same with U+2192
      T1 \o ARROW \o T2,                            \* no spaces around -->
      <<"0", ":", "0", ":", "x">> \o SEPARATOR \o T2 }   \* 0:0:x --> 0:0:2

WrittenInputs == UNION {[1..n -> LineAlphabet] : n \in 0..MaxLines}

\* Entry k of a file of blocks without text: str() ends every block with an
\* empty line and joins the blocks with another.
BuiltEntry(k, range) == SRTEntry(k, range[1], range[2], <<>>, 4 * k - 3)

DocsOver(T, n) ==
    UNION {{[k \in 1..m |-> BuiltEntry(k, f[k])] : f \in [1..m -> T \X T]}
           : m \in 0..n}

\* The texts main() is run on: written from the alphabet, or the str() of a
\* Document.
RenderedInputs == {SRTFile_str(d) : d \in DocsOver(NominalTimes, MaxEntries - 1)}

\* The Documents of two entries with timestamps of T.
PairsOver(T) == {[k \in 1..2 |-> BuiltEntry(k, f[k])] : f \in [1..2 -> T \X T]}

\* The Documents a library caller builds with SRTFile(entries).
Documents == DocsOver(NominalTimes, MaxEntries) \cup PairsOver(Times)

\* Entries built by a caller of SRTEntry(...) that passes None for a time.
AbsentDocuments == DocsOver(NominalTimes \cup {None}, MaxEntries - 1)

(***************************************************************************)
(* main() and the library caller                                           *)
(***************************************************************************)
InitMain ==
    /\ pc = "main"
    /\ srt_content \in WrittenInputs \cup RenderedInputs
    /\ renumber \in BOOLEAN
    /\ fix_errors \in BOOLEAN
    /\ srt = SRTFile(<<>>, <<>>)

InitLib ==
    /\ pc = "lib"
    /\ srt_content = <<>>
    /\ renumber = FALSE
    /\ fix_errors = FALSE
    /\ srt \in {SRTFile(d, <<>>) : d \in Documents}

InitAbsentLib ==
    /\ pc = "lib"
    /\ srt_content = <<>>
    /\ renumber = FALSE
    /\ fix_errors = FALSE
    /\ srt \in {SRTFile(d, <<>>) : d \in AbsentDocuments}

InitRest ==
    /\ result = <<>>
    /\ raised = NoError
    /\ before = <<>>
    /\ passes = <<>>
    /\ visits = <<>>

Init == (InitMain \/ InitLib) /\ InitRest

InitAbsent == (InitMain \/ InitLib \/ InitAbsentLib) /\ InitRest

\* srt = SRTFile.parse(srt_content, renumber=args.renumber, fix_errors=args.fix)
MainParse ==
    /\ pc = "main"
    /\ LET p == SRTFile_parse(srt_content, renumber, fix_errors)
       IN  IF p.exc # NoError
           THEN /\ pc' = "failed"
                /\ raised' = p.exc
                /\ srt' = srt
           ELSE /\ pc' = "parsed"
                /\ raised' = raised
                /\ srt' = SRTFile(p.entries, p.warnings)
    /\ UNCHANGED <<srt_content, renumber, fix_errors, result, before, passes, visits>>

\* A call verify_srt(srt, fix): the entries are mutated in place, also when
\* the call raises.
Call(fix, next) ==
    LET v == verify_srt(srt.entries, fix)
    IN  /\ srt' = [srt EXCEPT !.entries = v.entries]
        /\ before' = srt.entries
        /\ passes' = Append(passes, [fix |-> fix, mutated |-> v.entries # srt.entries])
        /\ visits' = v.visits
        /\ IF v.exc # NoError
           THEN /\ pc' = "failed"
                /\ raised' = v.exc
                /\ result' = result
           ELSE /\ pc' = next
                /\ raised' = raised
                /\ result' = v.errors

\* result = verify_srt(srt, fix_errors=args.fix)
MainVerify ==
    /\ pc = "parsed"
    /\ Call(fix_errors, "verified")
    /\ UNCHANGED <<srt_content, renumber, fix_errors>>

Reverifies == result # <<>> /\ fix_errors

\* if result and args.fix: result = verify_srt(srt)
MainReverify ==
    /\ pc = "verified"
    /\ Reverifies
    /\ Call(FALSE, "done")
    /\ UNCHANGED <<srt_content, renumber, fix_errors>>

\* otherwise main goes on to print result as it is
MainReport ==
    /\ pc = "verified"
    /\ ~Reverifies
    /\ pc' = "done"
    /\ UNCHANGED <<srt_content, renumber, fix_errors, srt, result, raised, before,
                   passes, visits>>

\* A library caller's verify_srt(srt, fix_errors=fix).
Validate(fix) ==
    /\ pc = "lib"
    /\ Len(passes) < MaxCalls
    /\ Call(fix, "lib")
    /\ UNCHANGED <<srt_content, renumber, fix_errors>>

Next ==
    \/ MainParse
    \/ MainVerify
    \/ MainReverify
    \/ MainReport
    \/ \E fix \in BOOLEAN : Validate(fix)

Spec == Init /\ [][Next]_vars

\* The same program run also on Documents that hold an absent timestamp.
SpecAbsent == InitAbsent /\ [][Next]_vars

(***************************************************************************)
(* Properties                                                              *)
(***************************************************************************)
LastPass == passes[Len(passes)]

\* The last verify_srt call has returned (it did not raise).
Returned == passes # <<>> /\ pc # "failed"

InvalidRange(entry) == SRTTime_ge(entry.start_time, entry.end_time)

IsOverlapFinding(f) == f.kind = "overlap"

IsInvalidFinding(f) == f.kind = "invalid"

HasFinding(findings, f) == \E j \in 1..Len(findings) : findings[j] = f

\* The adjacent pairs (k - 1, k) that overlapped when the last call visited k.
OverlappingAtVisit ==
    {k \in 2..Len(visits) : SRTTime_lt(visits[k].start_time, visits[k].prev_end)}

\* C1: in a run of main() with --fix, every entry whose range is invalid
\* (start >= end) after the repair pass has an invalid-range finding in the
\* findings the run ends with.
C1_ResidualDefectsReported ==
    (pc = "done" /\ fix_errors) =>
        \A k \in 1..Len(srt.entries) :
            InvalidRange(srt.entries[k]) =>
                \E j \in 1..Len(result) :
                    /\ IsInvalidFinding(result[j])
                    /\ result[j].id = srt.entries[k].id
                    /\ result[j].line_number = srt.entries[k].line_number

\* C2: after a pass with fix mode on, for every adjacent pair whose
\* current.start was strictly less than previous.end when the pair was
\* visited, previous.end and current.start are one timestamp, whose total
\* milliseconds are the floor of the average of the two values', and the
\* findings hold no overlap finding for the pair.
C2_OverlapRepairedToMidpoint ==
    (Returned /\ LastPass.fix) =>
        \A k \in OverlappingAtVisit :
            /\ srt.entries[k - 1].end_time = srt.entries[k].start_time
            /\ total_ms(srt.entries[k].start_time) =
                   (total_ms(visits[k].prev_end) + total_ms(visits[k].start_time)) \div 2
            /\ ~HasFinding(result, OverlapFinding(srt.entries[k], srt.entries[k - 1]))

\* A fix pass has repaired a chain of two overlapping pairs, one of them with
\* an odd sum of milliseconds.
C2_Witness ==
    /\ Returned /\ LastPass.fix
    /\ {2, 3} \subseteq OverlappingAtVisit
    /\ \E k \in OverlappingAtVisit :
           (total_ms(visits[k].prev_end) + total_ms(visits[k].start_time)) % 2 = 1

\* The k with j - 1 smaller elements in the set K of numbers.
Nth(K, j) == CHOOSE k \in K : Cardinality({x \in K : x < k}) = j - 1

\* C3: with fix mode off the overlap findings are, in file order, exactly
\* one for each adjacent pair with current.start strictly less than
\* previous.end, naming the ids (and lines) of the two entries.
C3_OverlapFindingsExact ==
    (Returned /\ ~LastPass.fix) =>
        LET K == {k \in 2..Len(before) :
                      SRTTime_lt(before[k].start_time, before[k - 1].end_time)}
            found == SelectSeq(result, IsOverlapFinding)
        IN  /\ Len(found) = Cardinality(K)
            /\ \A j \in 1..Len(found) :
                   found[j] = [kind |-> "overlap",
                               id |-> before[Nth(K, j)].id,
                               line_number |-> before[Nth(K, j)].line_number,
                               prev_id |-> before[Nth(K, j) - 1].id,
                               prev_line_number |-> before[Nth(K, j) - 1].line_number]

\* A pass without fix over three entries: the first pair meets at equal
\* boundary times (no overlap), the second overlaps, and the third entry
\* starts before the first ends (not adjacent, not compared).
C3_Witness ==
    /\ Returned /\ ~LastPass.fix
    /\ Len(before) = 3
    /\ before[2].start_time = before[1].end_time
    /\ SRTTime_lt(before[3].start_time, before[2].end_time)
    /\ SRTTime_lt(before[3].start_time, before[1].end_time)
    /\ Len(SelectSeq(result, IsOverlapFinding)) = 1

\* C4: a verify_srt call with fix mode off changes nothing in the Document,
\* and a call that follows another one with fix mode off returns the same
\* findings.
C4_ValidateWithoutFixIsPure ==
    [][ (passes' # passes /\ ~passes'[Len(passes')].fix) =>
            /\ srt' = srt
            /\ (passes # <<>> /\ ~LastPass.fix => result' = result) ]_vars

\* Two calls without fix in a row on a Document with an overlap and an
\* invalid range.
C4_Witness ==
    /\ Returned
    /\ Len(passes) >= 2
    /\ ~LastPass.fix /\ ~passes[Len(passes) - 1].fix
    /\ \E j \in 1..Len(result) : IsOverlapFinding(result[j])
    /\ \E j \in 1..Len(result) : IsInvalidFinding(result[j])

\* C5: a pass, with fix mode on or off, emits an invalid-range finding for
\* every entry whose start was greater than or equal to its end when it was
\* visited; and a timestamp differs from what it was before the pass only
\* where fix mode repaired an overlapping pair (the checks change none).
C5_InvalidRangeAlwaysReported ==
    Returned =>
        /\ \A k \in 1..Len(visits) :
               SRTTime_ge(visits[k].start_time, visits[k].end_time) =>
                   HasFinding(result, [kind |-> "invalid",
                                       id |-> before[k].id,
                                       line_number |-> before[k].line_number,
                                       start_time |-> visits[k].start_time,
                                       end_time |-> visits[k].end_time])
        /\ \A k \in 1..Len(before) :
               /\ srt.entries[k].start_time # before[k].start_time =>
                      LastPass.fix /\ k \in OverlappingAtVisit
               /\ srt.entries[k].end_time # before[k].end_time =>
                      LastPass.fix /\ (k + 1) \in OverlappingAtVisit

\* A fix pass has visited an entry with start = end, reported it and left
\* its two timestamps as they were, while it repaired another pair.
C5_Witness ==
    /\ Returned /\ LastPass.fix /\ LastPass.mutated
    /\ \E k \in 1..Len(visits) :
           /\ visits[k].start_time = visits[k].end_time
           /\ HasFinding(result, InvalidFinding(before[k]))
           /\ srt.entries[k] = before[k]

\* A fix pass has run before the last call.
ResolvedBefore == \E j \in 1..(Len(passes) - 1) : passes[j].fix

\* C6 as stated: a fix pass on a Document that a fix pass has already
\* processed changes no timestamp and returns no errors.
C6_SecondFixPassSilent ==
    (Returned /\ LastPass.fix /\ ResolvedBefore) =>
        /\ srt.entries = before
        /\ result = <<>>

\* C6 as amended: a fix pass on a Document that a fix pass has already
\* processed changes no timestamp and returns no overlap finding: what it
\* returns is one invalid-range finding for each entry with start >= end.
C6_SecondFixPassChangesNothing ==
    (Returned /\ LastPass.fix /\ ResolvedBefore) =>
        /\ srt.entries = before
        /\ ~LastPass.mutated
        /\ result = SelectSeq([k \in 1..Len(before) |-> InvalidFinding(before[k])],
                              LAMBDA f : SRTTime_ge(f.start_time, f.end_time))

\* Three fix passes in a row: the first repaired an overlap, the third runs
\* on the resolved Document for the second time and still reports an
\* invalid range.
C6_Witness ==
    /\ Returned
    /\ Len(passes) = 3
    /\ \A j \in 1..3 : passes[j].fix
    /\ passes[1].mutated
    /\ srt.entries = before
    /\ result # <<>>

\* C7: a call on a Document in which some entry has an absent timestamp
\* returns: it emits the missing-time finding for that entry and visits
\* every later entry.
C7_MissingTimeDoesNotAbort ==
    passes # <<>> =>
        /\ pc # "failed"
        /\ Len(visits) = Len(before)
        /\ \A k \in 1..Len(before) :
               (before[k].start_time = None \/ before[k].end_time = None) =>
                   HasFinding(result, MissingFinding(before[k]))

\* The run has ended in SRTFile.parse, or has just left it.
ParseFailed == pc = "failed" /\ passes = <<>>

ParseReturned == pc = "parsed"

\* C8: a parse that fails fails with a message that holds the 1-based
\* number of a line of the input.
C8_ParseFailureNamesLine ==
    ParseFailed =>
        /\ "line" \in DOMAIN raised
        /\ raised.line \in 1..Len(srt_content)

\* The lines of the input that begin a block: non-blank, and first or after
\* a blank line.
BlockStarts(content) ==
    {n \in 1..Len(content) :
         /\ Strip(content[n]) # <<>>
         /\ n = 1 \/ Strip(content[n - 1]) = <<>>}

\* The time-range line l as it is split: under fix mode a line without "-->"
\* has its U+2192 replaced.
RangeFields(l) ==
    Split(IF Contains(l, ARROW) THEN l ELSE Replace(l, UARROW[1], ARROW), SEPARATOR)

\* The warnings for a missing ID at the given line.
MissingIdWarnings(line) ==
    SelectSeq(srt.warnings, LAMBDA w : "id" \in DOMAIN w /\ w.line = line)

\* What C9 says of the block that begins at line n of the text `content`
\* and is entry k of the parsed file, when line n holds an arrow.
MissingIdRecovered(content, n, k) ==
    /\ fix_errors /\ renumber
    /\ srt.entries[k].id = k
    /\ MissingIdWarnings(srt.entries[k].line_number) =
           <<MissingIdWarning(srt.entries[k].line_number, k)>>
    /\ srt.entries[k].start_time = SRTTime_parse(Strip(RangeFields(Strip(content[n]))[1])).value
    /\ srt.entries[k].end_time = SRTTime_parse(Strip(RangeFields(Strip(content[n]))[2])).value
    /\ srt.entries[k].line_number = n

\* What C9 says of a text `content` whose first block begins at line n with
\* a line that holds an arrow.
MissingIdOutcome(n) ==
    /\ ~fix_errors => ParseFailed /\ raised.site = "missing id"
    /\ fix_errors /\ ~renumber => ParseFailed /\ raised.site = "renumbering off"
    /\ fix_errors /\ renumber /\ ParseFailed =>
           raised.site \notin {"missing id", "renumbering off"}

MissingIdHandling(content) ==
    /\ \A n \in BlockStarts(content) :
           (n = Min(BlockStarts(content)) /\ LooksLikeTimeRange(content[n])) =>
               MissingIdOutcome(n)
    /\ ParseReturned =>
           /\ Len(srt.entries) = Cardinality(BlockStarts(content))
           /\ \A k \in 1..Len(srt.entries) :
                  LooksLikeTimeRange(content[Nth(BlockStarts(content), k)]) =>
                      MissingIdRecovered(content, Nth(BlockStarts(content), k), k)

\* C9: when the line in a block's ID position holds an arrow, strict mode
\* fails, fix mode without renumbering fails with the must-turn-on-
\* renumbering error, and fix mode with renumbering gives the entry the next
\* sequential id, records exactly one missing-ID warning for the block, reads
\* the same line as the time range, and records as the entry's line number
\* the line of the input where the ID was expected.
C9_MissingIdHandling ==
    (ParseFailed \/ ParseReturned) => MissingIdHandling(srt_content)

\* The same with lines counted as SRTFile.parse counts them, from the first
\* non-blank line of the input (it strips the text before it splits it).
C9_CountedFromFirstNonBlankLine ==
    (ParseFailed \/ ParseReturned) => MissingIdHandling(StripSplit(srt_content))

\* Fix mode with renumbering has recovered two blocks without ID line.
C9_Recovered ==
    /\ ParseReturned
    /\ Len(srt.entries) = 2
    /\ Len(srt.warnings) >= 2
    /\ \A k \in 1..2 : MissingIdWarnings(srt.entries[k].line_number) # <<>>

FailsWith(p, site) == p.exc # NoError /\ p.exc.site = site

\* The input texts of one or two lines.
ShortInputs == UNION {[1..n -> LineAlphabet] : n \in 1..2}

\* There is an input on which strict mode fails with the error raised at
\* `site` and fix mode parses successfully and records a warning.
RecoversFrom(site) ==
    \E c \in ShortInputs :
        /\ \E ren \in BOOLEAN : FailsWith(SRTFile_parse(c, ren, FALSE), site)
        /\ \E ren \in BOOLEAN :
               /\ SRTFile_parse(c, ren, TRUE).exc = NoError
               /\ SRTFile_parse(c, ren, TRUE).warnings # <<>>

MissingIdRecovers == RecoversFrom("missing id")

MalformedIdRecovers == RecoversFrom("malformed id")

MissingTimeRangeRecovers == RecoversFrom("missing time range")

\* On the run's input no mode gets past the error raised at `site`: when
\* strict mode fails with it, so has this run.
FatalInThisRun(site) ==
    (ParseFailed \/ ParseReturned) =>
        (FailsWith(SRTFile_parse(srt_content, FALSE, FALSE), site) =>
             ParseFailed /\ raised = SRTFile_parse(srt_content, FALSE, FALSE).exc)

\* C10 as stated: missing ID, malformed ID and missing time range each have
\* a fix-mode recovery path; an arrow in a text line is fatal in every mode.
C10_ThreeRecoverable ==
    /\ MissingIdRecovers
    /\ MalformedIdRecovers
    /\ MissingTimeRangeRecovers
    /\ FatalInThisRun("arrow in text")

\* C10 as amended: missing ID and missing time range each have a fix-mode
\* recovery path; a malformed ID and an arrow in a text line are fatal in
\* every mode.
C10_TwoRecoverable ==
    /\ MissingIdRecovers
    /\ MissingTimeRangeRecovers
    /\ FatalInThisRun("malformed id")
    /\ FatalInThisRun("arrow in text")

\* Fix mode has parsed, with a warning, an input on which strict mode fails
\* for a missing time range.
C10_Witness ==
    /\ ParseReturned /\ fix_errors
    /\ srt.warnings # <<>>
    /\ FailsWith(SRTFile_parse(srt_content, renumber, FALSE), "missing time range")

\* The entries with their ids left out.
WithoutIds(entries) == [k \in 1..Len(entries) |-> [entries[k] EXCEPT !.id = 0]]

\* The parse p of the run's input, when it succeeded, has the entries of the
\* run's parse up to their ids.
AgreesWith(p) == p.exc = NoError => WithoutIds(p.entries) = WithoutIds(srt.entries)

\* C11: a successful parse with renumbering on yields the ids 1..N in file
\* order, and a parse of the same input with the other setting of renumbering
\* (under either setting of fix mode), when it succeeds, yields as many
\* entries with the same timestamps, text lines and line numbers.
C11_RenumberedIds ==
    ParseReturned =>
        /\ renumber => \A k \in 1..Len(srt.entries) : srt.entries[k].id = k
        /\ \A fix \in BOOLEAN : AgreesWith(SRTFile_parse(srt_content, ~renumber, fix))

\* Renumbering has replaced an id read from the file by 1, in an entry with
\* text that the parse without renumbering yields with the id of the file.
C11_Witness ==
    /\ ParseReturned /\ renumber
    /\ Len(srt.entries) = 1
    /\ srt.entries[1].text # <<>>
    /\ SRTFile_parse(srt_content, FALSE, fix_errors).exc = NoError
    /\ SRTFile_parse(srt_content, FALSE, fix_errors).entries[1].id # 1

\* What C12 says of the timestamps A and B (`same`: they are one object).
TotalOrder(A, B, same) ==
    /\ Cardinality({c \in {"lt", "eq", "gt"} :
                        \/ c = "lt" /\ SRTTime_lt(A, B)
                        \/ c = "eq" /\ SRTTime_eq(A, B, same)
                        \/ c = "gt" /\ SRTTime_gt(A, B, same)}) = 1
    /\ SRTTime_eq(A, B, same) <=> Fields(A) = Fields(B)
    /\ SRTTime_lt(A, B) <=> TupleLess(Fields(A), Fields(B))
    /\ SRTTime_le(A, B, same) <=> ~TupleLess(Fields(B), Fields(A))
    /\ SRTTime_gt(A, B, same) <=> TupleLess(Fields(B), Fields(A))
    /\ SRTTime_ge(A, B) <=> ~TupleLess(Fields(A), Fields(B))

\* C12: the comparisons of two timestamps are those of their (hours,
\* minutes, seconds, milliseconds) tuples, exactly one of A<B, A==B, A>B
\* holds, and A==B holds exactly when the fields are equal: for the start
\* and the end of every entry of the Document (two objects), in both orders,
\* and for every timestamp and itself.
C12_TotalOrderFieldwiseEquality ==
    \A k \in 1..Len(srt.entries) :
        /\ TotalOrder(srt.entries[k].start_time, srt.entries[k].end_time, FALSE)
        /\ TotalOrder(srt.entries[k].end_time, srt.entries[k].start_time, FALSE)
        /\ TotalOrder(srt.entries[k].start_time, srt.entries[k].start_time, TRUE)

\* The timestamps of the entries.
TimesOf(entries) ==
    UNION {{entries[k].start_time, entries[k].end_time} : k \in 1..Len(entries)}

\* What C13 says of the midpoint m of timestamps of a and b milliseconds.
MidpointBounded(a, b, m) ==
    /\ (IF a <= b THEN a ELSE b) <= m
    /\ m <= (IF a <= b THEN b ELSE a)
    /\ 2 * m <= a + b
    /\ a + b < 2 * m + 2

\* C13: for all timestamps A and B of the Document, as it is and as it was
\* before the last validate call (fields are non-negative, seconds may
\* exceed 59), the total milliseconds of A.average(B) are at least the
\* smaller and at most the larger of the total milliseconds of A and B, and
\* equal the floor of their average.
C13_MidpointBounded ==
    \A A, B \in TimesOf(srt.entries) \cup TimesOf(before) :
        MidpointBounded(total_ms(A), total_ms(B), total_ms(average(A, B)))

\* A fix pass has taken the midpoint of 00:01:00,000 and 00:00:61,000, of
\* which one has a field beyond its nominal range: 00:01:00,500.
C13_Witness ==
    /\ Returned /\ LastPass.fix
    /\ 2 \in OverlappingAtVisit
    /\ visits[2].prev_end = SRTTime(0, 1, 0, 0)
    /\ visits[2].start_time = SRTTime(0, 0, 61, 0)
    /\ srt.entries[2].start_time = SRTTime(0, 1, 0, 500)

\* What C14 allows a validate call with fix mode `fix` to change: `old` and
\* `new` are the Document before and after it, K the pairs (k - 1, k) the
\* call found overlapping.
FrameOfValidate(old, new, fix, K) ==
    /\ new.warnings = old.warnings
    /\ Len(new.entries) = Len(old.entries)
    /\ \A k \in 1..Len(old.entries) :
           /\ new.entries[k].id = old.entries[k].id
           /\ new.entries[k].text = old.entries[k].text
           /\ new.entries[k].line_number = old.entries[k].line_number
           /\ new.entries[k].start_time # old.entries[k].start_time => fix /\ k \in K
           /\ new.entries[k].end_time # old.entries[k].end_time => fix /\ (k + 1) \in K
    /\ old.entries # <<>> =>
           /\ new.entries[1].start_time = old.entries[1].start_time
           /\ new.entries[Len(new.entries)].end_time =
                  old.entries[Len(old.entries)].end_time

\* C14: every validate call, with fix mode on or off, leaves the number and
\* order of the entries, their ids, text lines and line numbers and the
\* warnings as they were; a timestamp it changes is the end of the previous
\* or the start of the current entry of an adjacent pair a fix pass found
\* overlapping; the first entry's start and the last entry's end stay.
C14_ValidateFrame ==
    [][ passes' # passes =>
            FrameOfValidate(srt, srt', passes'[Len(passes')].fix, OverlappingAtVisit') ]_vars

\* After a pass without fix, a fix pass over three entries has changed a
\* timestamp and left the first start and the last end as they were.
C14_Witness ==
    /\ Returned
    /\ Len(passes) >= 2
    /\ LastPass.fix /\ LastPass.mutated
    /\ Len(before) = 3
    /\ srt.entries[1].start_time = before[1].start_time
    /\ srt.entries[3].end_time = before[3].end_time

\* The call before the last one was a fix pass.
AfterFixPass == Len(passes) >= 2 /\ passes[Len(passes) - 1].fix

\* C15: after a validate pass with fix mode on, no entry starts strictly
\* before the entry before it ends, and a validate pass without fix that
\* follows a fix pass returns no overlap finding.
C15_NoOverlapAfterFixPass ==
    Returned =>
        /\ LastPass.fix =>
               \A k \in 2..Len(srt.entries) :
                   ~SRTTime_lt(srt.entries[k].start_time, srt.entries[k - 1].end_time)
        /\ (~LastPass.fix /\ AfterFixPass) =>
               \A j \in 1..Len(result) : ~IsOverlapFinding(result[j])

\* A fix pass has repaired a Document of three entries, which now meet at
\* their boundaries, and the pass without fix that followed has returned
\* findings, none of them an overlap.
C15_Witness ==
    /\ Returned
    /\ Len(passes) = 2
    /\ passes[1].fix /\ passes[1].mutated
    /\ ~LastPass.fix
    /\ Len(srt.entries) = 3
    /\ srt.entries[1].end_time = srt.entries[2].start_time
    /\ srt.entries[2].end_time = srt.entries[3].start_time
    /\ result # <<>>

\* C16: for every adjacent pair a fix pass found overlapping, under the
\* order of SRTTime.__lt__ the new previous.end is not later than the
\* previous.end the pass read, and the new current.start is not earlier than
\* the current.start it read.
C16_RepairOnlyShrinks ==
    (Returned /\ LastPass.fix) =>
        \A k \in OverlappingAtVisit :
            /\ ~SRTTime_lt(visits[k].prev_end, srt.entries[k - 1].end_time)
            /\ ~SRTTime_lt(srt.entries[k].start_time, visits[k].start_time)

\* Every iteration of the block loop has failed or advanced the line index,
\* and the loop has evaluated its condition at most once more than there
\* are lines.
Advances(heads, lines) ==
    /\ \A j \in 1..(Len(heads) - 1) :
           heads[j + 1].exc # NoError \/ heads[j + 1].i > heads[j].i
    /\ Len(heads) <= Len(lines) + 1

\* The lines entry k was read from: from its line number on, the ID line
\* (unless it was missing), the time-range line and the text lines.
LinesOf(k) ==
    LET e == srt.entries[k]
    IN  e.line_number ..
            (e.line_number + Len(e.text)
                 + (IF MissingIdWarnings(e.line_number) = <<>> THEN 1 ELSE 0))

\* Every non-blank line is a line of exactly one entry, the text lines being
\* the last lines of the entry, and the loop has left no line unread.
Consumed(lines, last) ==
    /\ last.i >= Len(lines)
    /\ \A n \in 1..Len(lines) :
           Strip(lines[n]) # <<>> =>
               Cardinality({k \in 1..Len(srt.entries) : n \in LinesOf(k)}) = 1
    /\ \A k \in 1..Len(srt.entries) :
           LET e == srt.entries[k]
               hi == CHOOSE n \in LinesOf(k) : \A m \in LinesOf(k) : m <= n
           IN  /\ hi <= Len(lines)
               /\ \A j \in 1..Len(e.text) :
                      e.text[j] = Strip(lines[hi - Len(e.text) + j])

\* C17: parse ends on every input under every flag setting, each iteration
\* of the block loop failing or advancing the line index by at least one
\* (the missing-ID recovery included); when it succeeds every non-blank line
\* of the input has been consumed as the ID line, the time-range line or a
\* text line of exactly one entry.
C17_ParseAdvancesAndConsumes ==
    (ParseFailed \/ ParseReturned) =>
        /\ Advances(ParseHeads(ParseStart, StripSplit(srt_content), renumber, fix_errors),
                    StripSplit(srt_content))
        /\ ParseReturned =>
               Consumed(StripSplit(srt_content),
                        SRTFile_parse(srt_content, renumber, fix_errors))

\* Fix mode with renumbering has parsed two blocks, the first without ID
\* line and with a text line.
C17_Witness ==
    /\ ParseReturned
    /\ Len(srt.entries) = 2
    /\ MissingIdWarnings(srt.entries[1].line_number) # <<>>
    /\ srt.entries[1].text # <<>>

====
